---- MODULE Spec2Model ----
(***************************************************************************)
(* Model of xarray_annotations: the Schema validation engine (lib/schema.py) *)
(* and the check_input / check_output decorators (lib/validate.py).          *)
(*                                                                           *)
(* A labeled array is [dims, coords, values]: dims is the sequence of        *)
(* dimension names; coords is the coordinate mapping in insertion order, a   *)
(* sequence of [k, v] items with distinct keys, v being a coordinate         *)
(* variable (a 0-d integer, or a 1-d list of integer labels); values is the  *)
(* set of elements of the numeric buffer (the value checks are "any"         *)
(* reductions, so only the set of elements matters).                         *)
(* A Python dict is a sequence of [k, v] items with distinct keys.           *)
(***************************************************************************)
EXTENDS Integers, Sequences, FiniteSets, TLC

VARIABLES
    schema,          \* the Schema instance's attributes
    ctor_args,       \* the arguments Schema.__init__ was called with
    init_outcome,    \* "none" (not constructed yet), "ok", "raised"
    deco,            \* decorator of the call in progress / last call
    kwargs,          \* keyword arguments of the call in progress / last call
    pc,              \* 0: no call in progress; i: next statement of the wrapper
    vpc,             \* 0: not inside validate; j: next statement of validate
    data,            \* the array validate was called with
    func_result,     \* what the wrapped function returned in this call
    returned,        \* what the wrapper returned to its caller
    trace,           \* calls the wrapper made, in order, with their arguments
    checks,          \* checks validate ran, in order
    log,             \* messages passed to logger.warning during this call
    outcome,         \* "none", "running", "returned", "raised"
    error,           \* the exception that ended the call (NoMsg if none)
    failed_resolves  \* expectations whose callback has raised on this Schema

vars == <<schema, ctor_args, init_outcome, deco, kwargs, pc, vpc, data,
          func_result, returned, trace, checks, log, outcome, error,
          failed_resolves>>

----------------------------------------------------------------------------
(* Bounds of the model checked input space *)

\* longest coordinate label list of a generated array
MaxLen == 2
\* longest dimension-name list (array rank, expectation length)
MaxRank == 2

(* Program constants *)

\* schema.py:9
EXACT_MATCH_TYPE == "exact"
\* schema.py:10
MINIMUM_MATCH_TYPE == "minimum"
\* schema.py:11
VALID_MATCH_TYPES == {EXACT_MATCH_TYPE, MINIMUM_MATCH_TYPE}

\* demo_check_output_coord_callback.py:14-18
FOO == <<1, 2>>
BAR == <<3, 4>>
MIN_VAL == -100
MAX_VAL == 100
GBD_ROUND_ID == 6

----------------------------------------------------------------------------
(* Values *)

Range(s) == {s[i] : i \in 1..Len(s)}

\* floats: finite numbers, the two infinities and NaN
Num(n) == [t |-> "num", n |-> n]
NaN == [t |-> "nan", n |-> 0]
PosInf == [t |-> "inf", n |-> 1]
NegInf == [t |-> "inf", n |-> -1]

\* IEEE x < y: false when either side is NaN
FloatLess(x, y) ==
    IF x.t = "nan" \/ y.t = "nan" THEN FALSE
    ELSE IF x.t = "inf" THEN x.n < 0 /\ ~(y.t = "inf" /\ y.n < 0)
    ELSE IF y.t = "inf" THEN y.n > 0
    ELSE x.n < y.n

\* Python == on dimension names, which are strings or integers: values of
\* different types are unequal
PyEq(a, b) == ToString(a) = ToString(b)
\* Python == on lists of dimension names
PyListEq(p, q) == Len(p) = Len(q) /\ \A i \in 1..Len(p) : PyEq(p[i], q[i])
\* Python in on a list of dimension names
PyIn(a, q) == \E i \in 1..Len(q) : PyEq(a, q[i])

\* a message handed to _log_or_raise, or the exception that ended a call
Msg(kind, names) == [kind |-> kind, names |-> names]
NoMsg == Msg("none", <<>>)

\* an expectation: a concrete value or a callback
Concrete(v) == [callable |-> FALSE, fn |-> "", val |-> v]
Callback(fn) == [callable |-> TRUE, fn |-> fn, val |-> <<>>]

\* a dict item
Item(k, v) == [k |-> k, v |-> v]
Keys(d) == {d[i].k : i \in 1..Len(d)}
\* d[key], for a key of d
Lookup(d, key) == d[CHOOSE i \in 1..Len(d) : d[i].k = key].v

\* coordinate variables of an array: a 0-d integer or a 1-d list
Scalar(n) == [scalar |-> TRUE, item |-> n, vals |-> <<>>]
List(s) == [scalar |-> FALSE, item |-> 0, vals |-> s]

Array(dims, coords, values) == [dims |-> dims, coords |-> coords, values |-> values]
NoArray == Array(<<>>, <<>>, {})

\* keyword arguments of a decorated call: the keys passed, the array passed as
\* arg_name (when "arg" is a key) and gbd_round_id (when it is a key)
Kwargs(keys, arr, round) == [keys |-> keys, arg |-> arr, gbd_round_id |-> round]
NoKwargs == Kwargs({}, NoArray, 0)

----------------------------------------------------------------------------
(* lib/schema.py *)

\* coords_as_dict: a 0-d integer coordinate becomes a one-element list
coords_as_dict(arr) ==
    [i \in 1..Len(arr.coords) |->
        Item(arr.coords[i].k,
             IF arr.coords[i].v.scalar
             THEN <<arr.coords[i].v.item>>
             ELSE arr.coords[i].v.vals)]

\* Schema.__init__: only dim_match_type is checked
SchemaInit(args) ==
    IF args.dim_match_type \notin VALID_MATCH_TYPES
    THEN [raised |-> TRUE, schema |-> args]
    ELSE [raised |-> FALSE, schema |-> args]

\* the dynamic-expectation callbacks of the demo: both need gbd_round_id.
\* The dimension callback returns the integer lists FOO and BAR themselves.
get_main_schema_dims(kw) ==
    IF "gbd_round_id" \notin kw.keys THEN [raised |-> TRUE, val |-> <<>>]
    ELSE IF kw.gbd_round_id = GBD_ROUND_ID THEN [raised |-> FALSE, val |-> FOO]
    ELSE [raised |-> FALSE, val |-> BAR]

get_main_schema_coords(kw) ==
    IF "gbd_round_id" \notin kw.keys THEN [raised |-> TRUE, val |-> <<>>]
    ELSE IF kw.gbd_round_id = GBD_ROUND_ID
         THEN [raised |-> FALSE, val |-> <<Item("foo", FOO)>>]
    ELSE [raised |-> FALSE, val |-> <<Item("bar", BAR)>>]

\* the call of a stored callback with the keyword context: fn(**kwargs)
InvokeCallback(fn, kw) ==
    CASE fn = "get_main_schema_dims" -> get_main_schema_dims(kw)
      [] fn = "get_main_schema_coords" -> get_main_schema_coords(kw)

\* resolve_expected_dims keeping the callback beside the value it computed
\* and invoking it again on every call
resolve_expected_dims_reinvoke(s, kw) ==
    IF s.expected_dims.callable \/ s.expected_dims.fn # ""
    THEN LET r == InvokeCallback(s.expected_dims.fn, kw) IN
         IF r.raised THEN [raised |-> TRUE, schema |-> s]
         ELSE [raised |-> FALSE,
               schema |-> [s EXCEPT !.expected_dims =
                             [callable |-> FALSE, fn |-> s.expected_dims.fn,
                              val |-> r.val]]]
    ELSE [raised |-> FALSE, schema |-> s]

\* resolve_expected_dims dropping the callback before it is known to succeed
resolve_expected_dims_clears(s, kw) ==
    IF s.expected_dims.callable
    THEN LET r == InvokeCallback(s.expected_dims.fn, kw) IN
         IF r.raised
         THEN [raised |-> TRUE,
               schema |-> [s EXCEPT !.expected_dims = Concrete(<<>>)]]
         ELSE [raised |-> FALSE,
               schema |-> [s EXCEPT !.expected_dims = Concrete(r.val)]]
    ELSE [raised |-> FALSE, schema |-> s]

\* Schema.resolve_expected_dims
resolve_expected_dims(s, kw) ==
    IF s.expected_dims.callable
    THEN LET r == InvokeCallback(s.expected_dims.fn, kw) IN
         IF r.raised THEN [raised |-> TRUE, schema |-> s]
         ELSE [raised |-> FALSE,
               schema |-> [s EXCEPT !.expected_dims = Concrete(r.val)]]
    ELSE [raised |-> FALSE, schema |-> s]

\* Schema.resolve_expected_coords
resolve_expected_coords(s, kw) ==
    IF s.expected_coords.callable
    THEN LET r == InvokeCallback(s.expected_coords.fn, kw) IN
         IF r.raised THEN [raised |-> TRUE, schema |-> s]
         ELSE [raised |-> FALSE,
               schema |-> [s EXCEPT !.expected_coords = Concrete(r.val)]]
    ELSE [raised |-> FALSE, schema |-> s]

\* Schema._log_or_raise: TRUE when the message is raised, FALSE when logged
log_or_raise(s, message) == s.raise_errors

\* _match_dims_exactly comparing the names as sets
match_dims_as_sets(s, arr) ==
    IF Len(s.expected_dims.val) = 0 THEN <<>>
    ELSE IF ~(/\ \A i \in 1..Len(arr.dims) : PyIn(arr.dims[i], s.expected_dims.val)
              /\ \A i \in 1..Len(s.expected_dims.val) :
                    PyIn(s.expected_dims.val[i], arr.dims))
         THEN <<Msg("dims_exact", <<>>)>>
         ELSE <<>>

\* Schema._match_dims_exactly: the messages it hands to _log_or_raise
match_dims_exactly(s, arr) ==
    IF Len(s.expected_dims.val) = 0 THEN <<>>
    ELSE IF ~PyListEq(arr.dims, s.expected_dims.val)
         THEN <<Msg("dims_exact", <<>>)>>
         ELSE <<>>

\* the loop of _match_minimum_dims: each expected name is looked up in
\* expected_dims itself
RECURSIVE MissingDims(_, _, _)
MissingDims(expected, arr, i) ==
    IF i > Len(expected) THEN <<>>
    ELSE (IF ~PyIn(expected[i], expected) THEN <<expected[i]>> ELSE <<>>)
         \o MissingDims(expected, arr, i + 1)

\* Schema._match_minimum_dims
match_minimum_dims(s, arr) ==
    IF Len(s.expected_dims.val) = 0 THEN <<>>
    ELSE LET missing_dims == MissingDims(s.expected_dims.val, arr, 1) IN
         IF missing_dims # <<>>
         THEN <<Msg("dims_minimum", missing_dims)>>
         ELSE <<>>

\* a comparison that only looks for the items of the first dict in the second
ItemsContained(a, b) ==
    \A i \in 1..Len(a) :
        /\ a[i].k \in Keys(b)
        /\ Lookup(b, a[i].k) = a[i].v

\* dict_items equality: same length and every item of one is in the other
ItemsEqual(a, b) ==
    /\ Len(a) = Len(b)
    /\ \A i \in 1..Len(a) :
         /\ a[i].k \in Keys(b)
         /\ Lookup(b, a[i].k) = a[i].v

\* Schema._match_coords_exactly
match_coords_exactly(s, arr) ==
    IF Len(s.expected_coords.val) = 0 THEN <<>>
    ELSE LET coords == coords_as_dict(arr) IN
         IF ~ItemsEqual(s.expected_coords.val, coords)
         THEN <<Msg("coords_exact", <<>>)>>
         ELSE <<>>

\* the loop of _match_minimum_coords: coords[coord_name] is evaluated for
\* every expected key, also one just found missing (a KeyError)
RECURSIVE MinimumCoordsLoop(_, _, _, _, _)
MinimumCoordsLoop(expected, coords, i, missing, mismatching) ==
    IF i > Len(expected)
    THEN [keyerror |-> FALSE, missing |-> missing, mismatching |-> mismatching]
    ELSE LET coord_name == expected[i].k
             missing1 == IF coord_name \notin Keys(coords)
                         THEN Append(missing, coord_name) ELSE missing
         IN IF coord_name \notin Keys(coords)
            THEN [keyerror |-> TRUE, missing |-> missing1,
                  mismatching |-> mismatching]
            ELSE MinimumCoordsLoop(expected, coords, i + 1, missing1,
                    IF ~(Range(expected[i].v) \subseteq
                            Range(Lookup(coords, coord_name)))
                    THEN Append(mismatching, coord_name) ELSE mismatching)

\* Schema._match_minimum_coords
match_minimum_coords(s, arr) ==
    IF Len(s.expected_coords.val) = 0 THEN <<>>
    ELSE LET coords == coords_as_dict(arr)
             r == MinimumCoordsLoop(s.expected_coords.val, coords, 1, <<>>, <<>>)
         IN IF r.keyerror THEN <<Msg("coords_KeyError", r.missing)>>
            ELSE (IF r.missing # <<>>
                  THEN <<Msg("coords_missing", r.missing)>> ELSE <<>>)
                 \o (IF r.mismatching # <<>>
                     THEN <<Msg("coords_mismatch", r.mismatching)>> ELSE <<>>)

\* Schema._ensure_no_nan_values
ensure_no_nan_values(s, arr) ==
    IF \E x \in arr.values : x.t = "nan" THEN <<Msg("nan", <<>>)>> ELSE <<>>

\* Schema._ensure_values_above_minimum
ensure_values_above_minimum(s, arr) ==
    IF \E x \in arr.values : FloatLess(x, s.min_value)
    THEN <<Msg("below_minimum", <<>>)>> ELSE <<>>

\* Schema._ensure_values_below_maximum
ensure_values_below_maximum(s, arr) ==
    IF \E x \in arr.values : FloatLess(s.max_value, x)
    THEN <<Msg("above_maximum", <<>>)>> ELSE <<>>

\* the effect of a check's messages: a KeyError always raises; a message is
\* raised or logged by _log_or_raise, and a raise ends the check
RECURSIVE Policy(_, _, _, _)
Policy(s, msgs, i, logged) ==
    IF i > Len(msgs) THEN [logged |-> logged, raised |-> NoMsg]
    ELSE IF msgs[i].kind = "coords_KeyError" \/ log_or_raise(s, msgs[i])
         THEN [logged |-> logged, raised |-> msgs[i]]
         ELSE Policy(s, msgs, i + 1, Append(logged, msgs[i]))

\* the statements of Schema.validate, in order
ValidateChecks == <<"dims", "coords", "nan", "min", "max">>

\* whether validate runs the statement's check at all
CheckRuns(s, name) == name # "nan" \/ ~s.nan_values_allowed

\* the messages of one statement of validate
CheckMessages(s, arr, name) ==
    CASE name = "dims" ->
            IF s.dim_match_type = EXACT_MATCH_TYPE
            THEN match_dims_exactly(s, arr) ELSE match_minimum_dims(s, arr)
      [] name = "coords" ->
            IF s.coord_match_type = "exact"
            THEN match_coords_exactly(s, arr) ELSE match_minimum_coords(s, arr)
      [] name = "nan" -> ensure_no_nan_values(s, arr)
      [] name = "min" -> ensure_values_above_minimum(s, arr)
      [] name = "max" -> ensure_values_below_maximum(s, arr)

----------------------------------------------------------------------------
(* lib/validate.py *)

\* check_input calling the wrapped function before validating
CheckInputSteps_FuncFirst ==
    <<"func", "resolve_expected_dims", "resolve_expected_coords", "validate",
      "return">>

\* check_output validating before calling the wrapped function
CheckOutputSteps_FuncLast ==
    <<"resolve_expected_dims", "resolve_expected_coords", "validate", "func",
      "return">>

\* the statements of check_input's wrapper, in order
CheckInputSteps ==
    <<"resolve_expected_dims", "resolve_expected_coords", "validate", "func",
      "return">>

\* the statements of check_output's wrapper, in order
CheckOutputSteps ==
    <<"func", "resolve_expected_dims", "resolve_expected_coords", "validate",
      "return">>

WrapperSteps(d) == IF d = "input" THEN CheckInputSteps ELSE CheckOutputSteps

\* the argument of schema.validate: kwargs[arg_name] (a KeyError when the
\* argument was not passed by keyword) or the wrapped function's result
ValidateArg(d, kw, result) ==
    IF d = "input"
    THEN IF "arg" \in kw.keys THEN [raised |-> FALSE, val |-> kw.arg]
         ELSE [raised |-> TRUE, val |-> NoArray]
    ELSE [raised |-> FALSE, val |-> result]

\* what the wrapper returns
ReturnValue(d, kw, result) == result

----------------------------------------------------------------------------
(* The program: one Schema, constructed once, and decorated calls on it *)

\* the defaults of Schema.__init__
DefaultArgs ==
    [expected_dims |-> Concrete(<<>>), dim_match_type |-> EXACT_MATCH_TYPE,
     expected_coords |-> Concrete(<<>>), coord_match_type |-> EXACT_MATCH_TYPE,
     min_value |-> NegInf, max_value |-> PosInf,
     nan_values_allowed |-> TRUE, raise_errors |-> TRUE]

\* an entry of the trace: the call made and the arguments it was given
Ev(op, kw, arr) == [op |-> op, kw |-> kw, data |-> arr]

CurStep == IF pc = 0 THEN "idle" ELSE WrapperSteps(deco)[pc]
CurCheck == IF vpc = 0 THEN "idle" ELSE ValidateChecks[vpc]

Init ==
    /\ schema = DefaultArgs
    /\ ctor_args = DefaultArgs
    /\ init_outcome = "none"
    /\ deco = "input"
    /\ kwargs = NoKwargs
    /\ pc = 0
    /\ vpc = 0
    /\ data = NoArray
    /\ func_result = NoArray
    /\ returned = NoArray
    /\ trace = <<>>
    /\ checks = <<>>
    /\ log = <<>>
    /\ outcome = "none"
    /\ error = NoMsg
    /\ failed_resolves = {}

\* main_schema = schema.Schema(...)
Construct(args) ==
    /\ init_outcome = "none"
    /\ LET r == SchemaInit(args) IN
         /\ init_outcome' = IF r.raised THEN "raised" ELSE "ok"
         /\ schema' = IF r.raised THEN schema ELSE r.schema
    /\ ctor_args' = args
    /\ UNCHANGED <<deco, kwargs, pc, vpc, data, func_result, returned, trace,
                   checks, log, outcome, error, failed_resolves>>

\* a call of a function decorated with check_input / check_output
Call(d, kw) ==
    /\ init_outcome = "ok"
    /\ pc = 0
    /\ deco' = d
    /\ kwargs' = kw
    /\ pc' = 1
    /\ vpc' = 0
    /\ data' = NoArray
    /\ func_result' = NoArray
    /\ returned' = NoArray
    /\ trace' = <<>>
    /\ checks' = <<>>
    /\ log' = <<>>
    /\ outcome' = "running"
    /\ error' = NoMsg
    /\ UNCHANGED <<schema, ctor_args, init_outcome, failed_resolves>>

\* schema.resolve_expected_dims(**kwargs)
ResolveDims ==
    /\ vpc = 0
    /\ CurStep = "resolve_expected_dims"
    /\ LET r == resolve_expected_dims(schema, kwargs) IN
         /\ schema' = r.schema
         /\ trace' = Append(trace, Ev("resolve_expected_dims", kwargs, NoArray))
         /\ IF r.raised
            THEN /\ pc' = 0
                 /\ outcome' = "raised"
                 /\ error' = Msg("callback_error", <<"expected_dims">>)
                 /\ failed_resolves' = failed_resolves \cup {"expected_dims"}
            ELSE /\ pc' = pc + 1
                 /\ UNCHANGED <<outcome, error, failed_resolves>>
    /\ UNCHANGED <<ctor_args, init_outcome, deco, kwargs, vpc, data,
                   func_result, returned, checks, log>>

\* schema.resolve_expected_coords(**kwargs)
ResolveCoords ==
    /\ vpc = 0
    /\ CurStep = "resolve_expected_coords"
    /\ LET r == resolve_expected_coords(schema, kwargs) IN
         /\ schema' = r.schema
         /\ trace' = Append(trace, Ev("resolve_expected_coords", kwargs, NoArray))
         /\ IF r.raised
            THEN /\ pc' = 0
                 /\ outcome' = "raised"
                 /\ error' = Msg("callback_error", <<"expected_coords">>)
                 /\ failed_resolves' = failed_resolves \cup {"expected_coords"}
            ELSE /\ pc' = pc + 1
                 /\ UNCHANGED <<outcome, error, failed_resolves>>
    /\ UNCHANGED <<ctor_args, init_outcome, deco, kwargs, vpc, data,
                   func_result, returned, checks, log>>

\* schema.validate(...): the argument is evaluated and validate is entered
ValidateEnter ==
    /\ vpc = 0
    /\ CurStep = "validate"
    /\ LET a == ValidateArg(deco, kwargs, func_result) IN
         IF a.raised
         THEN /\ pc' = 0
              /\ outcome' = "raised"
              /\ error' = Msg("arg_KeyError", <<"arg">>)
              /\ UNCHANGED <<vpc, data, trace>>
         ELSE /\ vpc' = 1
              /\ data' = a.val
              /\ trace' = Append(trace, Ev("validate", kwargs, a.val))
              /\ UNCHANGED <<pc, outcome, error>>
    /\ UNCHANGED <<schema, ctor_args, init_outcome, deco, kwargs, func_result,
                   returned, checks, log, failed_resolves>>

\* one statement of validate
CheckStep(name) ==
    /\ vpc > 0
    /\ CurCheck = name
    /\ IF ~CheckRuns(schema, name)
       THEN /\ vpc' = IF vpc = Len(ValidateChecks) THEN 0 ELSE vpc + 1
            /\ pc' = IF vpc = Len(ValidateChecks) THEN pc + 1 ELSE pc
            /\ UNCHANGED <<checks, log, outcome, error>>
       ELSE LET r == Policy(schema, CheckMessages(schema, data, name), 1, <<>>) IN
            /\ checks' = Append(checks, name)
            /\ log' = log \o r.logged
            /\ IF r.raised # NoMsg
               THEN /\ pc' = 0
                    /\ vpc' = 0
                    /\ outcome' = "raised"
                    /\ error' = r.raised
               ELSE /\ vpc' = IF vpc = Len(ValidateChecks) THEN 0 ELSE vpc + 1
                    /\ pc' = IF vpc = Len(ValidateChecks) THEN pc + 1 ELSE pc
                    /\ UNCHANGED <<outcome, error>>
    /\ UNCHANGED <<schema, ctor_args, init_outcome, deco, kwargs, data,
                   func_result, returned, trace, failed_resolves>>

MatchDims == CheckStep("dims")
MatchCoords == CheckStep("coords")
EnsureNoNan == CheckStep("nan")
EnsureAboveMinimum == CheckStep("min")
EnsureBelowMaximum == CheckStep("max")

\* func(*args, **kwargs): the wrapped function runs and returns r
Func(r) ==
    /\ vpc = 0
    /\ CurStep = "func"
    /\ func_result' = r
    /\ trace' = Append(trace, Ev("func", kwargs, NoArray))
    /\ pc' = pc + 1
    /\ UNCHANGED <<schema, ctor_args, init_outcome, deco, kwargs, vpc, data,
                   returned, checks, log, outcome, error, failed_resolves>>

\* return result
Return ==
    /\ vpc = 0
    /\ CurStep = "return"
    /\ returned' = ReturnValue(deco, kwargs, func_result)
    /\ outcome' = "returned"
    /\ pc' = 0
    /\ UNCHANGED <<schema, ctor_args, init_outcome, deco, kwargs, vpc, data,
                   func_result, trace, checks, log, error, failed_resolves>>

\* the steps of a call in progress
Steps ==
    \/ ResolveDims
    \/ ResolveCoords
    \/ ValidateEnter
    \/ MatchDims
    \/ MatchCoords
    \/ EnsureNoNan
    \/ EnsureAboveMinimum
    \/ EnsureBelowMaximum
    \/ Return

----------------------------------------------------------------------------
(* The inputs explored *)

\* a match type that is not one of VALID_MATCH_TYPES
MatchTypes == VALID_MATCH_TYPES \cup {"superset"}

SchemaArgs(ed, dt, ec, ct, lo, hi, na, re) ==
    [expected_dims |-> ed, dim_match_type |-> dt,
     expected_coords |-> ec, coord_match_type |-> ct,
     min_value |-> lo, max_value |-> hi,
     nan_values_allowed |-> na, raise_errors |-> re]

\* sequences without repetition over S, of length at most n
RECURSIVE SeqsNoRep(_, _)
SeqsNoRep(S, n) ==
    IF n = 0 THEN {<<>>}
    ELSE LET shorter == SeqsNoRep(S, n - 1) IN
         shorter \cup UNION {{Append(q, x) : x \in S \ Range(q)} : q \in shorter}

\* sequences over S of length at most n
RECURSIVE SeqsUpTo(_, _)
SeqsUpTo(S, n) ==
    IF n = 0 THEN {<<>>}
    ELSE LET shorter == SeqsUpTo(S, n - 1) IN
         shorter \cup {Append(q, x) : q \in shorter, x \in S}

\* dicts with the keys of the name sequences in KeySeqs and values in Vals
RECURSIVE DictsOver(_, _)
DictsOver(keyseq, Vals) ==
    IF keyseq = <<>> THEN {<<>>}
    ELSE {<<Item(Head(keyseq), v)>> \o rest :
             v \in Vals, rest \in DictsOver(Tail(keyseq), Vals)}

(* the demos' arrays (demo_check_input.py setup, demo_check_output.py main) *)
DemoCoords == <<Item("foo", List(FOO)), Item("bar", List(BAR))>>
DemoArray(values) == Array(<<"foo", "bar">>, DemoCoords, values)

ProtoArrays ==
    { DemoArray({Num(1)}),
      \* EXERCISE_MIN_VALUE_ERROR, EXERCISE_MAX_VALUE_ERROR
      DemoArray({Num(MIN_VAL - 1)}),
      DemoArray({Num(MAX_VAL + 1)}),
      DemoArray({Num(1), NaN}),
      \* EXERCISE_COORD_ERROR: data.sel(foo=[1])
      Array(<<"foo", "bar">>,
            <<Item("foo", List(<<1>>)), Item("bar", List(BAR))>>, {Num(1)}),
      \* EXERCISE_DIM_ERROR: data.sel(foo=[1]).squeeze("foo")
      Array(<<"bar">>,
            <<Item("foo", Scalar(1)), Item("bar", List(BAR))>>, {Num(1)}),
      \* a dimension without coordinate labels
      Array(<<"foo", "bar">>, <<Item("bar", List(BAR))>>, {Num(1)}),
      \* every check violated at once
      Array(<<"bar", "foo">>, <<Item("bar", List(<<3>>))>>,
            {NaN, Num(MIN_VAL - 1), Num(MAX_VAL + 1)}) }

ProtoSchemas ==
    { SchemaArgs(ed, dt, ec, ct, Num(MIN_VAL), Num(MAX_VAL), na, re) :
        ed \in {Concrete(<<>>), Concrete(<<"foo", "bar">>),
                Callback("get_main_schema_dims")},
        dt \in MatchTypes,
        ec \in {Concrete(<<>>),
                Concrete(<<Item("foo", FOO), Item("bar", BAR)>>),
                Callback("get_main_schema_coords")},
        ct \in MatchTypes,
        na \in BOOLEAN, re \in BOOLEAN }

Rounds == {GBD_ROUND_ID, GBD_ROUND_ID + 1}

\* the keyword arguments of a call: the array by keyword or not, gbd_round_id
\* passed or not
InputKwargs(Arrays) ==
    {Kwargs({"arg"}, a, 0) : a \in Arrays}
    \cup {Kwargs({"arg", "gbd_round_id"}, a, r) : a \in Arrays, r \in Rounds}
    \cup {Kwargs({}, NoArray, 0)}
    \cup {Kwargs({"gbd_round_id"}, NoArray, r) : r \in Rounds}

OutputKwargs ==
    {Kwargs({}, NoArray, 0)}
    \cup {Kwargs({"gbd_round_id"}, NoArray, r) : r \in Rounds}

\* an input space: the constructor arguments, the keyword arguments of the
\* calls through each decorator and the wrapped function's results
Inputs(schemas, inkw, outkw, inres, outres) ==
    [schemas |-> schemas, inkw |-> inkw, outkw |-> outkw,
     inres |-> inres, outres |-> outres]

ProtoInputs ==
    Inputs(ProtoSchemas, InputKwargs(ProtoArrays), OutputKwargs,
           {NoArray}, ProtoArrays)

(* dimension matching: every expectation against every array *)
DimNames == {"foo", "bar", "baz"}
DimSeqs == SeqsNoRep(DimNames, MaxRank)
DimArrays == {Array(d, <<>>, {Num(1)}) : d \in DimSeqs}
DimSchemas ==
    { SchemaArgs(Concrete(ed), dt, Concrete(<<>>), EXACT_MATCH_TYPE,
                 NegInf, PosInf, TRUE, re) :
        ed \in DimSeqs, dt \in VALID_MATCH_TYPES, re \in BOOLEAN }

DimInputs ==
    Inputs(DimSchemas, {Kwargs({"arg"}, a, 0) : a \in DimArrays},
           {Kwargs({}, NoArray, 0)}, {NoArray}, DimArrays)

(* coordinate matching: a few expectations against every coordinate mapping *)
CoordNames == {"foo", "bar"}
Labels == {1, 2}
CoordVars ==
    {Scalar(n) : n \in Labels} \cup {List(q) : q \in SeqsUpTo(Labels, MaxLen)}
CoordDicts ==
    UNION {DictsOver(ks, CoordVars) : ks \in SeqsNoRep(CoordNames, 2)}
CoordArrays == {Array(<<"foo", "bar">>, c, {Num(1)}) : c \in CoordDicts}
ExpectedCoords ==
    { <<>>,
      <<Item("foo", <<1, 2>>)>>,
      <<Item("foo", <<2>>), Item("bar", <<1>>)>>,
      <<Item("bar", <<2, 1>>), Item("foo", <<1, 2>>)>> }
CoordSchemas ==
    { SchemaArgs(Concrete(<<>>), EXACT_MATCH_TYPE, Concrete(ec), ct,
                 NegInf, PosInf, TRUE, re) :
        ec \in ExpectedCoords, ct \in VALID_MATCH_TYPES, re \in BOOLEAN }

CoordInputs ==
    Inputs(CoordSchemas, {Kwargs({"arg"}, a, 0) : a \in CoordArrays},
           {Kwargs({}, NoArray, 0)}, {NoArray}, CoordArrays)

NextOver(D) ==
    \/ \E args \in D.schemas : Construct(args)
    \/ \E kw \in D.inkw : Call("input", kw)
    \/ \E kw \in D.outkw : Call("output", kw)
    \/ \E r \in (IF deco = "input" THEN D.inres ELSE D.outres) : Func(r)
    \/ Steps

Next == NextOver(ProtoInputs)
NextDims == NextOver(DimInputs)
NextCoords == NextOver(CoordInputs)

\* decorated calls on a Schema built from the demos' arguments
Spec == Init /\ [][Next]_vars
\* the dimension check on every pair of expectation and array
SpecDims == Init /\ [][NextDims]_vars
\* the coordinate check on every array coordinate mapping
SpecCoords == Init /\ [][NextCoords]_vars

----------------------------------------------------------------------------
(* Properties *)

Constructed == init_outcome = "ok"
\* the names of the calls the wrapper has made in this call, in order
Ops == [i \in 1..Len(trace) |-> trace[i].op]
IsPrefix(p, q) == Len(p) <= Len(q) /\ \A i \in 1..Len(p) : p[i] = q[i]
\* a violation of this kind was reported in this call: logged or raised
Reported(kind) ==
    \/ \E i \in 1..Len(log) : log[i].kind = kind
    \/ error.kind = kind
\* the names a report of this kind carried
ReportedNames(kind) ==
    IF error.kind = kind THEN error.names
    ELSE log[CHOOSE i \in 1..Len(log) : log[i].kind = kind].names

\* C1: construction succeeds if and only if dim_match_type and
\* coord_match_type are both one of {exact, minimum}; any other value of
\* either is a construction-time failure.
C1_ConstructionChecksBothMatchTypes ==
    init_outcome # "none" =>
        (init_outcome = "ok" <=>
            /\ ctor_args.dim_match_type \in {"exact", "minimum"}
            /\ ctor_args.coord_match_type \in {"exact", "minimum"})

\* C2: once an expectation of a constructed Schema is concrete, no step of any
\* later call changes it, whatever keyword context the call carries: the value
\* resolved first is the one validate reads from then on.
C2_ResolutionIsOneShot ==
    [][ Constructed =>
          /\ ~schema.expected_dims.callable =>
                schema'.expected_dims = schema.expected_dims
          /\ ~schema.expected_coords.callable =>
                schema'.expected_coords = schema.expected_coords ]_vars

\* C2 witness: a call whose context (gbd_round_id = 7) would resolve the
\* dimensions to BAR has made its resolve call, and the Schema still holds
\* FOO from an earlier call's context.
C2_Witness ==
    /\ Constructed
    /\ ctor_args.expected_dims.callable
    /\ ~schema.expected_dims.callable
    /\ PyListEq(schema.expected_dims.val, FOO)
    /\ "gbd_round_id" \in kwargs.keys
    /\ kwargs.gbd_round_id = GBD_ROUND_ID + 1
    /\ \E i \in 1..Len(trace) : trace[i].op = "resolve_expected_dims"

\* C3: a call through check_input makes, in this order and each at most once
\* and with the call's keyword arguments, resolve_expected_dims,
\* resolve_expected_coords, validate(kwargs[arg_name]) and then the wrapped
\* function; it returns the function's result unchanged; a call that raised
\* never invoked the wrapped function.
C3_InputOrder ==
    (Constructed /\ deco = "input" /\ outcome # "none") =>
        /\ IsPrefix(Ops, <<"resolve_expected_dims", "resolve_expected_coords",
                           "validate", "func">>)
        /\ \A i \in 1..Len(trace) :
              /\ trace[i].kw = kwargs
              /\ trace[i].op = "validate" =>
                    "arg" \in kwargs.keys /\ trace[i].data = kwargs.arg
        /\ outcome = "returned" => (Len(trace) = 4 /\ returned = func_result)
        /\ outcome = "raised" => \A i \in 1..Len(trace) : trace[i].op # "func"
        /\ (\E i \in 1..Len(trace) : trace[i].op = "func") =>
              (vpc = 0 /\ error = NoMsg)

\* C3 witness: a check_input call returned after validate logged a violation
\* and the wrapped function ran.
C3_Witness ==
    /\ Constructed /\ deco = "input" /\ outcome = "returned"
    /\ log # <<>>
    /\ Len(trace) = 4 /\ trace[4].op = "func"

\* C4: a call through check_output invokes the wrapped function exactly once
\* and first, then resolves dimensions and coordinates with the call's keyword
\* arguments, then validates the function's result, then returns that result
\* unmodified; when a later step raises, the function has already run and
\* nothing is returned.
C4_OutputOrder ==
    (Constructed /\ deco = "output" /\ outcome # "none") =>
        /\ IsPrefix(Ops, <<"func", "resolve_expected_dims",
                           "resolve_expected_coords", "validate">>)
        /\ \A i \in 1..Len(trace) :
              /\ trace[i].kw = kwargs
              /\ trace[i].op = "validate" => trace[i].data = func_result
        /\ outcome = "returned" => (Len(trace) = 4 /\ returned = func_result)
        /\ outcome = "raised" =>
              (Len(trace) >= 1 /\ trace[1].op = "func" /\ returned = NoArray)

\* C4 witness: a check_output call raised a value violation after the wrapped
\* function had produced its result.
C4_Witness ==
    /\ Constructed /\ deco = "output" /\ outcome = "raised"
    /\ error.kind = "below_minimum"
    /\ func_result # NoArray

\* the checks a complete validate runs, in order
AllChecks ==
    IF schema.nan_values_allowed THEN <<"dims", "coords", "min", "max">>
    ELSE <<"dims", "coords", "nan", "min", "max">>

\* the check that reports a violation of this kind
CheckOfKind(kind) ==
    CASE kind \in {"dims_exact", "dims_minimum"} -> "dims"
      [] kind \in {"coords_exact", "coords_missing", "coords_mismatch"} -> "coords"
      [] kind = "nan" -> "nan"
      [] kind = "below_minimum" -> "min"
      [] kind = "above_maximum" -> "max"
      [] OTHER -> "none"

\* C5: validate runs its checks in the order dimension, coordinate, NaN (only
\* when nan_values_allowed is false), minimum, maximum. With raise_errors
\* false it never ends with an error and every check runs, violations being
\* logged; with raise_errors true the first violated check raises and no later
\* check runs.
C5_ValidatePolicy ==
    (Constructed /\ \E i \in 1..Len(trace) : trace[i].op = "validate") =>
        /\ IsPrefix(checks, AllChecks)
        /\ ~schema.raise_errors =>
              /\ error = NoMsg
              /\ outcome # "raised"
              /\ (vpc = 0 => checks = AllChecks)
        /\ schema.raise_errors =>
              /\ log = <<>>
              /\ (vpc = 0 /\ error = NoMsg) => checks = AllChecks
              /\ error # NoMsg =>
                    /\ outcome = "raised"
                    /\ CheckOfKind(error.kind) = checks[Len(checks)]

\* C6: in minimum mode the dimension check reports a violation if and only if
\* expected_dims is non-empty and one of its names is not among the array's
\* dimension names.
C6_MinimumDimsReportsMissing ==
    (Constructed /\ schema.dim_match_type = "minimum" /\ "dims" \in Range(checks)) =>
        (Reported("dims_minimum") <=>
            \E i \in 1..Len(schema.expected_dims.val) :
                schema.expected_dims.val[i] \notin Range(data.dims))

\* the array's coordinate mapping: its keys and the label list of a key
DataCoordKeys == {data.coords[i].k : i \in 1..Len(data.coords)}
DataCoord(key) ==
    LET v == (CHOOSE i \in 1..Len(data.coords) : data.coords[i].k = key)
        c == data.coords[v].v
    IN IF c.scalar THEN <<c.item>> ELSE c.vals
ExpectedCoordKeys == {schema.expected_coords.val[i].k :
                         i \in 1..Len(schema.expected_coords.val)}
ExpectedCoord(key) ==
    schema.expected_coords.val[
        CHOOSE i \in 1..Len(schema.expected_coords.val) :
            schema.expected_coords.val[i].k = key].v

\* C7: in minimum mode with non-empty expected_coords the coordinate check
\* never ends in a lookup error; the expected keys missing from the array's
\* coordinates are reported as missing coordinates; and, where the missing
\* report did not raise, the present keys whose label set is not a superset of
\* the expected one are exactly those reported as mismatching.
C7_MinimumCoords ==
    (/\ Constructed
     /\ schema.coord_match_type = "minimum"
     /\ "coords" \in Range(checks)
     /\ schema.expected_coords.val # <<>>) =>
        LET missing == ExpectedCoordKeys \ DataCoordKeys
            mismatching ==
                {k \in ExpectedCoordKeys \cap DataCoordKeys :
                    ~(Range(ExpectedCoord(k)) \subseteq Range(DataCoord(k)))}
        IN /\ error.kind # "coords_KeyError"
           /\ Reported("coords_missing") <=> missing # {}
           /\ Reported("coords_missing") =>
                 Range(ReportedNames("coords_missing")) = missing
           /\ (missing = {} \/ ~schema.raise_errors) =>
                 /\ Reported("coords_mismatch") <=> mismatching # {}
                 /\ Reported("coords_mismatch") =>
                       Range(ReportedNames("coords_mismatch")) = mismatching

\* C8: in exact mode the coordinate check reports a violation if and only if
\* expected_coords is non-empty and the array's coordinate mapping has a key
\* expected_coords lacks, lacks a key of expected_coords, or holds for some
\* key a label list that is not the expected list, element for element.
C8_ExactCoords ==
    (Constructed /\ schema.coord_match_type = "exact" /\ "coords" \in Range(checks)) =>
        (Reported("coords_exact") <=>
            /\ schema.expected_coords.val # <<>>
            /\ \/ ExpectedCoordKeys \ DataCoordKeys # {}
               \/ DataCoordKeys \ ExpectedCoordKeys # {}
               \/ \E k \in ExpectedCoordKeys \cap DataCoordKeys :
                     LET e == ExpectedCoord(k)
                         f == DataCoord(k)
                     IN ~(Len(e) = Len(f) /\ \A i \in 1..Len(e) : e[i] = f[i]))

\* C8 witness: the exact check reported an array whose only difference from
\* the expectation is an extra coordinate key.
C8_Witness ==
    /\ Constructed /\ schema.coord_match_type = "exact"
    /\ "coords" \in Range(checks)
    /\ ExpectedCoordKeys # {}
    /\ ExpectedCoordKeys \subseteq DataCoordKeys
    /\ DataCoordKeys \ ExpectedCoordKeys # {}
    /\ \A k \in ExpectedCoordKeys : ExpectedCoord(k) = DataCoord(k)
    /\ Reported("coords_exact")

\* C9: in exact mode the dimension check reports a violation if and only if
\* expected_dims is non-empty and differs from the array's dimension names in
\* count, or in the name at some position.
C9_ExactDims ==
    (Constructed /\ schema.dim_match_type = "exact" /\ "dims" \in Range(checks)) =>
        LET e == schema.expected_dims.val
            f == data.dims
        IN Reported("dims_exact") <=>
              /\ Len(e) > 0
              /\ \/ Len(e) # Len(f)
                 \/ \E i \in 1..Len(e) : e[i] # f[i]

\* C9 witness: dims [bar, foo] were reported against expected [foo, bar].
C9_Witness ==
    /\ Constructed /\ schema.dim_match_type = "exact"
    /\ "dims" \in Range(checks)
    /\ schema.expected_dims.val = <<"foo", "bar">>
    /\ data.dims = <<"bar", "foo">>
    /\ Reported("dims_exact")

\* C10: when a callback raises during resolution the call ends with the
\* callback's error whatever raise_errors is, validate is not run and nothing
\* is returned, and the expectation whose callback raised is still the
\* callback.
C10_CallbackErrorPropagates ==
    (Constructed /\ error.kind = "callback_error") =>
        /\ outcome = "raised"
        /\ returned = NoArray
        /\ \A i \in 1..Len(trace) : trace[i].op # "validate"
        /\ checks = <<>> /\ log = <<>>
        /\ error.names = <<"expected_dims">> => schema.expected_dims.callable
        /\ error.names = <<"expected_coords">> => schema.expected_coords.callable

\* C10 witness: on a Schema that logs instead of raising, the dimension
\* callback raised in one call and a later call, made with gbd_round_id,
\* resolved the dimensions.
C10_Witness ==
    /\ Constructed /\ ~schema.raise_errors
    /\ "expected_dims" \in failed_resolves
    /\ ~schema.expected_dims.callable
    /\ ctor_args.expected_dims.callable

====
